---- MODULE Spec2Model ----
(***************************************************************************)
(* Model of main.py: the OpenRouter free-model scraper.  One run of main() *)
(* is a state machine over its await points; validate_and_clean_models is  *)
(* a pure operator over strings represented as sequences of characters.    *)
(***************************************************************************)
EXTENDS Integers, Sequences, FiniteSets, TLC

VARIABLES pc, op, started, sessions, playwright, js_result, models,
          content, api_models, file1, file2, write_failed, log,
          api_count, exit_code

vars == <<pc, op, started, sessions, playwright, js_result, models,
          content, api_models, file1, file2, write_failed, log,
          api_count, exit_code>>

(***************************************************************************)
(* Bounds and input pools                                                  *)
(***************************************************************************)
\* Longest list the in-page script hands back in one run.
MaxRows == 2

\* Python strings are sequences of one-character strings.
EmptyStr == <<>>
GptX == <<"G", "P", "T", "-", "X">>
GptXPadded == <<" ", "g", "p", "t", "-", "x">>
OpenaiGptX == <<"o", "p", "e", "n", "a", "i", "/", "g", "p", "t", "-", "x">>
GptXId == <<"G", "P", "T", "-", "x", " ">>
Ctx128k == <<"1", "2", "8", ",", "0", "0", "0">>
Ctx1000 == <<"1", "0", "0", "0">>
CtxNA == <<"n", "/", "a">>
CtxTilde == <<" ", "~", "3", "2", "k", "8", " ">>

\* A field value that is not a string (None): one element that is no character.
NoneValue == <<"None">>

Names == {EmptyStr, <<" ">>, GptX, GptXPadded}
Ids == {EmptyStr, OpenaiGptX, GptXId}
Contexts == {EmptyStr, Ctx128k}

Dict(d) == [kind |-> "dict", d |-> d]
NotADict == [kind |-> "other"]

\* What page.evaluate can hand back for one table row: a mapping with any of
\* the keys model, id, context, their values strings or None, or something
\* that is not a mapping.
RawRows ==
    {Dict([model |-> n, id |-> i, context |-> c]) : n \in Names, i \in Ids, c \in Contexts}
    \cup {Dict([model |-> EmptyStr, id |-> EmptyStr, context |-> Ctx1000]),
          Dict([model |-> GptX, id |-> EmptyStr, context |-> CtxTilde]),
          Dict([model |-> GptXPadded, id |-> OpenaiGptX, context |-> CtxNA]),
          Dict([id |-> OpenaiGptX]),
          Dict([model |-> GptXPadded, context |-> Ctx1000]),
          Dict([model |-> GptX, id |-> GptXId, context |-> NoneValue]),
          Dict([model |-> NoneValue, id |-> OpenaiGptX, context |-> Ctx1000]),
          NotADict}

RECURSIVE ListsUpTo(_, _)
ListsUpTo(S, n) ==
    IF n = 0 THEN {<<>>}
    ELSE LET shorter == ListsUpTo(S, n - 1)
         IN shorter \cup {Append(l, x) : l \in {s \in shorter : Len(s) = n - 1}, x \in S}

RawLists == ListsUpTo(RawRows, MaxRows)

(***************************************************************************)
(* str methods and re.search as validate_and_clean_models uses them        *)
(***************************************************************************)
Whitespace == {" ", "\t", "\n", "\r"}
Digits == {"0", "1", "2", "3", "4", "5", "6", "7", "8", "9"}
UpperCase == <<"A", "B", "C", "D", "E", "F", "G", "H", "I", "J", "K", "L", "M",
               "N", "O", "P", "Q", "R", "S", "T", "U", "V", "W", "X", "Y", "Z">>
LowerCase == <<"a", "b", "c", "d", "e", "f", "g", "h", "i", "j", "k", "l", "m",
               "n", "o", "p", "q", "r", "s", "t", "u", "v", "w", "x", "y", "z">>

SetMin(S) == CHOOSE x \in S : \A y \in S : x <= y
SetMax(S) == CHOOSE x \in S : \A y \in S : x >= y

\* str.strip(): drop leading and trailing whitespace.
Strip(s) ==
    LET keep == {i \in 1..Len(s) : s[i] \notin Whitespace}
    IN IF keep = {} THEN EmptyStr ELSE SubSeq(s, SetMin(keep), SetMax(keep))

LowerOf ==
    [c \in {UpperCase[i] : i \in 1..Len(UpperCase)} |->
        LowerCase[CHOOSE i \in 1..Len(UpperCase) : UpperCase[i] = c]]

LowerChar(c) == IF c \in DOMAIN LowerOf THEN LowerOf[c] ELSE c

\* str.lower()
Lower(s) == [i \in 1..Len(s) |-> LowerChar(s[i])]

\* Python's `a or b` on strings: a unless it is empty.
Or(a, b) == IF a # EmptyStr THEN a ELSE b

\* dict.get(key, ""): the value, or "" when the key is absent.
Get(model, key) == IF key \in DOMAIN model.d THEN model.d[key] ELSE EmptyStr

IsStr(value) == value # NoneValue

\* str(value): a string is itself, None becomes "None".
Str(value) == IF IsStr(value) THEN value ELSE <<"N", "o", "n", "e">>

\* re.search(r'(\d+)', s).group(1): the leftmost match, extended greedily;
\* the empty string stands for "no match" (context = "").
IsDigit(c) == c \in Digits

\* Faulty variant: every digit of s kept (non-digits removed), not the first run only.
SearchDigitsAll(s) == SelectSeq(s, IsDigit)

SearchDigits(s) ==
    LET at == {i \in 1..Len(s) : s[i] \in Digits}
    IN IF at = {} THEN EmptyStr
       ELSE LET from == SetMin(at)
                to == SetMax({j \in from..Len(s) : \A k \in from..j : s[k] \in Digits})
            IN SubSeq(s, from, to)

(***************************************************************************)
(* validate_and_clean_models                                               *)
(***************************************************************************)
IsDict(model) == model.kind = "dict"

\* Faulty variant: the .strip() forgotten.
ModelNameUntrimmed(model) == Get(model, "model")

ModelName(model) == Strip(Get(model, "model"))

ModelId(model) == Strip(Get(model, "id"))

LacksNameAndId(model) == ModelName(model) = EmptyStr /\ ModelId(model) = EmptyStr

\* Faulty variant: the .lower() forgotten.
ModelKeyCaseSensitive(model) == Or(ModelId(model), ModelName(model))

\* Faulty variant: the key taken from the fields as given, before trimming.
ModelKeyUntrimmed(model) == Lower(Or(Get(model, "id"), Get(model, "model")))

ModelKey(model) == Lower(Or(ModelId(model), ModelName(model)))

CleanContext(model) ==
    LET context == Strip(Str(Get(model, "context")))
    IN IF context # EmptyStr THEN SearchDigits(context) ELSE EmptyStr

CleanRecord(model) ==
    [model |-> Or(ModelName(model), ModelId(model)),
     id |-> ModelId(model),
     context |-> CleanContext(model)]

\* The loop body's three `continue` tests.
Skips(model, seen_models) ==
    \/ ~IsDict(model)
    \/ LacksNameAndId(model)
    \/ ModelKey(model) = EmptyStr
    \/ ModelKey(model) \in seen_models

\* Faulty variant: seen_models.add(model_key) forgotten.
RECURSIVE ValidateLoopNoSeen(_, _, _)
ValidateLoopNoSeen(rest, seen_models, validated_models) ==
    IF rest = <<>> THEN validated_models
    ELSE LET model == Head(rest)
         IN IF Skips(model, seen_models)
            THEN ValidateLoopNoSeen(Tail(rest), seen_models, validated_models)
            ELSE ValidateLoopNoSeen(Tail(rest), seen_models,
                                    Append(validated_models, CleanRecord(model)))

\* for model in models: ... validated_models.append({...})
RECURSIVE ValidateLoop(_, _, _)
ValidateLoop(rest, seen_models, validated_models) ==
    IF rest = <<>> THEN validated_models
    ELSE LET model == Head(rest)
         IN IF Skips(model, seen_models)
            THEN ValidateLoop(Tail(rest), seen_models, validated_models)
            ELSE ValidateLoop(Tail(rest),
                              seen_models \cup {ModelKey(model)},
                              Append(validated_models, CleanRecord(model)))

validate_and_clean_models(rows) == ValidateLoop(rows, {}, <<>>)

\* .strip() on a model or id that is not a string raises AttributeError,
\* and the loop reaches every row.
Raises(model) ==
    /\ IsDict(model)
    /\ (~IsStr(Get(model, "model")) \/ ~IsStr(Get(model, "id")))

ValidateRaises(rows) == \E i \in 1..Len(rows) : Raises(rows[i])

(***************************************************************************)
(* The API page text and json.loads                                        *)
(***************************************************************************)
JObject(size, data) == [type |-> "object", size |-> size, data |-> data]
JArray(size) == [type |-> "array", size |-> size, data |-> -1]
JNull == [type |-> "null", size |-> 0, data |-> -1]
EmptyObject == JObject(0, -1)

\* Page texts the API URL can render to; "" is an empty body.
ApiTexts == {"", "<html>429 Too Many Requests</html>", "{\"data\": [",
             "{}", "null", "[]", "[{\"id\": \"a\"}]",
             "{\"data\": []}", "{\"error\": {\"code\": 503}}",
             "{\"data\": [{\"id\": \"a\"}, {\"id\": \"b\"}]}"}

\* json.loads: the parsed value, or "JSONDecodeError".  An object is its
\* number of keys and the length of its "data" array (-1: no such key).
JsonLoads(text) ==
    CASE text = "{}" -> EmptyObject
      [] text = "null" -> JNull
      [] text = "[]" -> JArray(0)
      [] text = "[{\"id\": \"a\"}]" -> JArray(1)
      [] text = "{\"data\": []}" -> JObject(1, 0)
      [] text = "{\"error\": {\"code\": 503}}" -> JObject(1, -1)
      [] text = "{\"data\": [{\"id\": \"a\"}, {\"id\": \"b\"}]}" -> JObject(1, 2)
      [] OTHER -> [type |-> "JSONDecodeError", size |-> 0, data |-> -1]

\* Python truth value of a parsed JSON value: empty containers and None are false.
\* Faulty variant: `if api_models is not None`.
TruthyNotNone(value) == value.type # "null"

Truthy(value) == value.size > 0

\* `not models` on a list.
\* Faulty variant: `if models is None`, never true of a list.
NoModelsIsNone(m) == FALSE

NoModels(m) == m = <<>>

(***************************************************************************)
(* Automation sessions (playwright instances)                              *)
(***************************************************************************)
NoSession == 0
NotWritten == [written |-> FALSE]
Written(data) == [written |-> TRUE, data |-> data]

\* Faulty variant: the stop() call forgotten.
LeaveOpen(open, pw) == open

\* connect_to_browser: playwright.stop() before returning (None, None, None).
StopOnConnectFailure(open, pw) == open \ {pw}

\* The finally clause of the scraper and of the fetcher: `if playwright: stop()`.
StopInFinally(open, pw) == IF pw # NoSession THEN open \ {pw} ELSE open

(***************************************************************************)
(* The run of main()                                                       *)
(***************************************************************************)
Init ==
    /\ pc = "connect"
    /\ op = "scrape"
    /\ started = 0
    /\ sessions = {}
    /\ playwright = NoSession
    /\ js_result = <<>>
    /\ models = <<>>
    /\ content = ""
    /\ api_models = EmptyObject
    /\ file1 = NotWritten
    /\ file2 = NotWritten
    /\ write_failed = {}
    /\ log = {}
    /\ api_count = -1
    /\ exit_code = -1

\* The operation ends with its empty result ([] or {}) and control is back in main.
ReturnsEmpty(open, msgs) ==
    /\ sessions' = open
    /\ playwright' = NoSession
    /\ js_result' = <<>>
    /\ log' = log \cup msgs
    /\ IF op = "scrape"
       THEN /\ models' = <<>>
            /\ pc' = "scraped"
            /\ UNCHANGED api_models
       ELSE /\ api_models' = EmptyObject
            /\ pc' = "fetched"
            /\ UNCHANGED models

\* connect_to_browser, up to the session start.
PlaywrightStart ==
    /\ pc = "connect"
    /\ \E ok \in BOOLEAN :
         IF ok
         THEN /\ started' = started + 1
              /\ sessions' = sessions \cup {started + 1}
              /\ pc' = "cdp"
              /\ UNCHANGED <<playwright, js_result, models, api_models, log>>
         ELSE /\ ReturnsEmpty(sessions, {"connect_failed", "cannot_connect"})
              /\ UNCHANGED started
    /\ UNCHANGED <<op, content, file1, file2, write_failed, api_count, exit_code>>

\* connect_to_browser, from connect_over_cdp to its return.
ConnectOverCdp ==
    /\ pc = "cdp"
    /\ \E outcome \in {"page", "no_contexts", "exception"} :
         CASE outcome = "page" ->
                /\ playwright' = started
                /\ pc' = "goto"
                /\ UNCHANGED <<sessions, js_result, models, api_models, log>>
           [] outcome = "no_contexts" ->
                ReturnsEmpty(StopOnConnectFailure(sessions, started),
                             {"no_contexts", "cannot_connect"})
           [] outcome = "exception" ->
                ReturnsEmpty(StopOnConnectFailure(sessions, started),
                             {"connect_failed", "cannot_connect"})
    /\ UNCHANGED <<op, started, content, file1, file2, write_failed, api_count, exit_code>>

\* page.goto: a failure is re-raised, caught by the operation, and the finally runs.
Goto ==
    /\ pc = "goto"
    /\ \E ok \in BOOLEAN :
         IF ok
         THEN /\ pc' = IF op = "scrape" THEN "wait_selector" ELSE "evaluate"
              /\ UNCHANGED <<sessions, playwright, js_result, models, api_models, log>>
         ELSE ReturnsEmpty(StopInFinally(sessions, playwright),
                           {"goto_failed", "operation_failed"})
    /\ UNCHANGED <<op, started, content, file1, file2, write_failed, api_count, exit_code>>

\* page.wait_for_selector: a timeout is only a warning.
WaitForSelector ==
    /\ pc = "wait_selector"
    /\ \E found \in BOOLEAN :
         log' = IF found THEN log ELSE log \cup {"table_not_found"}
    /\ pc' = "evaluate"
    /\ UNCHANGED <<op, started, sessions, playwright, js_result, models, content,
                   api_models, file1, file2, write_failed, api_count, exit_code>>

\* The scraper's page.evaluate and what follows it up to the normalizer's return.
EvaluateTable ==
    /\ pc = "evaluate"
    /\ op = "scrape"
    /\ \/ ReturnsEmpty(StopInFinally(sessions, playwright), {"operation_failed"})
       \/ \E rows \in RawLists :
            IF rows = <<>>
            THEN ReturnsEmpty(StopInFinally(sessions, playwright), {"no_js_result"})
            ELSE IF ValidateRaises(rows)
            THEN ReturnsEmpty(StopInFinally(sessions, playwright), {"operation_failed"})
            ELSE /\ js_result' = rows
                 /\ models' = validate_and_clean_models(rows)
                 /\ pc' = "normalized"
                 /\ UNCHANGED <<sessions, playwright, api_models, log>>
    /\ UNCHANGED <<op, started, content, file1, file2, write_failed, api_count, exit_code>>

\* The scraper's finally clause and return on the path that reached the normalizer.
ScrapeReturn ==
    /\ pc = "normalized"
    /\ sessions' = StopInFinally(sessions, playwright)
    /\ playwright' = NoSession
    /\ js_result' = <<>>
    /\ pc' = "scraped"
    /\ UNCHANGED <<op, started, models, content, api_models, file1, file2,
                   write_failed, log, api_count, exit_code>>

\* main: `if not models: sys.exit(1)`.
CheckModels ==
    /\ pc = "scraped"
    /\ IF NoModels(models)
       THEN /\ log' = log \cup {"no_models"}
            /\ exit_code' = 1
            /\ pc' = "exit"
       ELSE /\ pc' = "save_models"
            /\ UNCHANGED <<log, exit_code>>
    /\ UNCHANGED <<op, started, sessions, playwright, js_result, models, content,
                   api_models, file1, file2, write_failed, api_count>>

\* main: makedirs and the dump of the records, then the call of the fetcher.
SaveModels ==
    /\ pc = "save_models"
    /\ \E ok \in BOOLEAN :
         IF ok
         THEN /\ file1' = Written(models)
              /\ log' = log \cup {"models_saved"}
              /\ op' = "fetch"
              /\ pc' = "connect"
              /\ UNCHANGED <<write_failed, exit_code>>
         ELSE /\ write_failed' = write_failed \cup {"file1"}
              /\ log' = log \cup {"save_failed"}
              /\ exit_code' = 1
              /\ pc' = "exit"
              /\ UNCHANGED <<file1, op>>
    /\ UNCHANGED <<started, sessions, playwright, js_result, models, content,
                   api_models, file2, api_count>>

\* The fetcher's page.evaluate, json.loads, the finally clause and the return.
EvaluateContent ==
    /\ pc = "evaluate"
    /\ op = "fetch"
    /\ \/ /\ ReturnsEmpty(StopInFinally(sessions, playwright), {"operation_failed"})
          /\ UNCHANGED content
       \/ \E text \in ApiTexts :
            /\ content' = text
            /\ IF text = ""
               THEN ReturnsEmpty(StopInFinally(sessions, playwright), {"no_content"})
               ELSE IF JsonLoads(text).type = "JSONDecodeError"
               THEN ReturnsEmpty(StopInFinally(sessions, playwright), {"json_failed"})
               ELSE /\ api_models' = JsonLoads(text)
                    /\ sessions' = StopInFinally(sessions, playwright)
                    /\ playwright' = NoSession
                    /\ log' = log \cup {"api_fetched"}
                    /\ pc' = "fetched"
                    /\ UNCHANGED <<js_result, models>>
    /\ UNCHANGED <<op, started, file1, file2, write_failed, api_count, exit_code>>

\* main: `if api_models:` and the dump of the payload; main then returns.
SaveApiModels ==
    /\ pc = "fetched"
    /\ IF Truthy(api_models)
       THEN \E ok \in BOOLEAN :
              IF ok
              THEN /\ file2' = Written(api_models)
                   /\ UNCHANGED write_failed
                   /\ IF api_models.type = "object"
                      THEN /\ log' = log \cup {"api_saved"}
                           /\ api_count' = IF api_models.data >= 0 THEN api_models.data ELSE 0
                      ELSE \* api_models.get raises AttributeError on a list
                           /\ log' = log \cup {"api_save_failed"}
                           /\ UNCHANGED api_count
              ELSE /\ write_failed' = write_failed \cup {"file2"}
                   /\ log' = log \cup {"api_save_failed"}
                   /\ UNCHANGED <<file2, api_count>>
       ELSE /\ log' = log \cup {"no_api_data"}
            /\ UNCHANGED <<file2, write_failed, api_count>>
    /\ exit_code' = 0
    /\ pc' = "exit"
    /\ UNCHANGED <<op, started, sessions, playwright, js_result, models, content,
                   api_models, file1>>

\* KeyboardInterrupt at an await: it passes every `except Exception`, the
\* operation's finally clause runs, and main exits 0.
Interrupt ==
    /\ pc \in {"connect", "cdp", "goto", "wait_selector", "evaluate"}
    /\ sessions' = StopInFinally(sessions, playwright)
    /\ playwright' = NoSession
    /\ js_result' = <<>>
    /\ log' = log \cup {"interrupted"}
    /\ exit_code' = 0
    /\ pc' = "exit"
    /\ UNCHANGED <<op, started, models, content, api_models, file1, file2,
                   write_failed, api_count>>

Next ==
    \/ PlaywrightStart
    \/ ConnectOverCdp
    \/ Goto
    \/ WaitForSelector
    \/ EvaluateTable
    \/ ScrapeReturn
    \/ CheckModels
    \/ SaveModels
    \/ EvaluateContent
    \/ SaveApiModels
    \/ Interrupt

Spec == Init /\ [][Next]_vars

(***************************************************************************)
(* Vocabulary of the properties, defined apart from the code's operators   *)
(***************************************************************************)
RECURSIVE LTrim(_)
LTrim(s) == IF s # <<>> /\ Head(s) \in Whitespace THEN LTrim(Tail(s)) ELSE s

RECURSIVE RTrim(_)
RTrim(s) == IF s # <<>> /\ s[Len(s)] \in Whitespace THEN RTrim(SubSeq(s, 1, Len(s) - 1)) ELSE s

Trim(s) == RTrim(LTrim(s))

\* A row's field as text: "" when absent, "None" when it is None.
Field(row, key) ==
    IF key \notin DOMAIN row.d THEN <<>>
    ELSE IF row.d[key] = NoneValue THEN <<"N", "o", "n", "e">>
    ELSE row.d[key]

\* A row the normalizer should consider: a mapping with a name or an id.
ValidRow(row) ==
    /\ row.kind = "dict"
    /\ (Trim(Field(row, "model")) # <<>> \/ Trim(Field(row, "id")) # <<>>)

\* Dedup key of a raw row and of an emitted record: the id lowercased if
\* there is one, else the display name lowercased.
KeyOf(id, name) == Lower(IF id # <<>> THEN id ELSE name)
RowKey(row) == KeyOf(Trim(Field(row, "id")), Trim(Field(row, "model")))
RecordKey(r) == KeyOf(r.id, r.model)

\* Indices of the valid rows that are the first with their key, ascending.
FirstOccurrences(rows) ==
    {i \in 1..Len(rows) :
        /\ ValidRow(rows[i])
        /\ \A j \in 1..(i - 1) : ValidRow(rows[j]) => RowKey(rows[j]) # RowKey(rows[i])}

RECURSIVE Ascending(_)
Ascending(S) == IF S = {} THEN <<>> ELSE <<SetMin(S)>> \o Ascending(S \ {SetMin(S)})

\* run is the first maximal run of digits of s, or empty when s has no digit.
IsFirstDigitRun(s, run) ==
    IF \A k \in 1..Len(s) : s[k] \notin Digits
    THEN run = <<>>
    ELSE \E p \in 1..Len(s) : \E q \in p..Len(s) :
            /\ \A k \in 1..(p - 1) : s[k] \notin Digits
            /\ \A k \in p..q : s[k] \in Digits
            /\ q = Len(s) \/ s[q + 1] \notin Digits
            /\ run = SubSeq(s, p, q)

AsRows(records) == [i \in 1..Len(records) |-> Dict(records[i])]

\* The normalizer has just run on js_result and produced models.
Normalized == pc = "normalized"

(***************************************************************************)
(* Properties of the normalizer                                            *)
(***************************************************************************)
\* C1: the normalizer's output never holds two records with the same dedup
\* key (id lowercased if non-empty, else model lowercased).
C1_NoDuplicateKeys ==
    \A i, j \in 1..Len(models) :
        i # j => RecordKey(models[i]) # RecordKey(models[j])

\* Two valid rows whose keys differ only in case or padding went in, one record came out.
C1_Witness ==
    /\ Normalized
    /\ Len(js_result) = 2
    /\ ValidRow(js_result[1]) /\ ValidRow(js_result[2])
    /\ RowKey(js_result[1]) = RowKey(js_result[2])
    /\ Field(js_result[1], "id") # Field(js_result[2], "id")
    /\ Len(models) = 1

ScenarioA ==
    <<Dict([model |-> GptX, id |-> OpenaiGptX, context |-> Ctx128k]),
      Dict([model |-> EmptyStr, id |-> OpenaiGptX, context |-> EmptyStr])>>

\* C2: scenario A: normalizing the two rows GPT-X / openai/gpt-x / "128,000"
\* and "" / openai/gpt-x / "" yields the single record with context "128000".
C2_ScenarioA ==
    (Normalized /\ js_result = ScenarioA)
        => models = <<[model |-> GptX, id |-> OpenaiGptX,
                       context |-> <<"1", "2", "8", "0", "0", "0">>]>>

C8_Idempotent == validate_and_clean_models(AsRows(models)) = models

\* The first pass dropped a row and rewrote a field of the one it kept.
C8_Witness ==
    /\ Normalized
    /\ Len(js_result) = 2
    /\ Len(models) = 1
    /\ \A i \in 1..2 : js_result[i] # Dict(models[1])

\* C9: a row whose model and id are both empty after trimming yields no
\* record, so every emitted record has a model or an id.
C9_BlankRowsDropped ==
    /\ \A k \in 1..Len(models) :
         Trim(models[k].model) # <<>> \/ Trim(models[k].id) # <<>>
    /\ Normalized =>
         /\ Len(models) <= Cardinality({i \in 1..Len(js_result) : ValidRow(js_result[i])})
         /\ (\A i \in 1..Len(js_result) : ~ValidRow(js_result[i])) => models = <<>>

\* The row "" / "" / "1000" and a row whose name is a blank went in; nothing came out.
C9_Witness ==
    /\ Normalized
    /\ \E i \in 1..Len(js_result) :
         js_result[i] = Dict([model |-> EmptyStr, id |-> EmptyStr, context |-> Ctx1000])
    /\ \E i \in 1..Len(js_result) :
         /\ js_result[i].kind = "dict"
         /\ Field(js_result[i], "model") = <<" ">>
         /\ Field(js_result[i], "id") = <<>>
    /\ models = <<>>

\* C10: the output is the cleaned first row of each distinct key among the
\* valid rows, in input order; a later row with a seen key changes nothing.
C10_FirstOccurrenceWins ==
    Normalized =>
        LET from == Ascending(FirstOccurrences(js_result))
        IN models = [k \in 1..Len(from) |->
                        [model |-> IF Trim(Field(js_result[from[k]], "model")) # <<>>
                                   THEN Trim(Field(js_result[from[k]], "model"))
                                   ELSE Trim(Field(js_result[from[k]], "id")),
                         id |-> Trim(Field(js_result[from[k]], "id")),
                         context |-> CleanContext(js_result[from[k]])]]

\* A later row with the first row's key but another name and context was dropped.
C10_Witness ==
    /\ Normalized
    /\ Len(js_result) = 2
    /\ ValidRow(js_result[1]) /\ ValidRow(js_result[2])
    /\ RowKey(js_result[1]) = RowKey(js_result[2])
    /\ Trim(Field(js_result[1], "model")) # Trim(Field(js_result[2], "model"))
    /\ CleanContext(js_result[1]) # CleanContext(js_result[2])
    /\ Len(models) = 1
    /\ models[1].context = CleanContext(js_result[1])

(***************************************************************************)
(* Properties of the run                                                   *)
(***************************************************************************)
\* The API page text was read, is not empty and is not valid JSON.
InvalidJsonRead == content # "" /\ JsonLoads(content).type = "JSONDecodeError"

\* C3 as stated: on invalid JSON text the fetcher returns the empty object,
\* output file 2 is still written and holds {}, and the summary logs an
\* API-model count of zero.
C3_InvalidJsonStillWritten ==
    InvalidJsonRead =>
        /\ api_models = EmptyObject
        /\ pc = "exit" => (file2 = Written(EmptyObject) /\ api_count = 0)

\* C3 as amended: on invalid JSON text the fetcher returns the empty object,
\* output file 2 is not written, no API-model count is logged and the run
\* warns that no API data was obtained before it completes with exit code 0.
C3_InvalidJsonNotWritten ==
    InvalidJsonRead =>
        /\ api_models = EmptyObject
        /\ file2 = NotWritten
        /\ api_count = -1
        /\ "json_failed" \in log
        /\ pc = "exit" => ("no_api_data" \in log /\ exit_code = 0)

\* The run ended after the fetcher met invalid JSON text.
C3_Witness ==
    /\ InvalidJsonRead
    /\ pc = "exit"
    /\ file1 # NotWritten
    /\ "no_api_data" \in log

\* The scraper has returned to main, and what it returned is the empty list.
ScraperReturnedNothing ==
    /\ models = <<>>
    /\ \/ op = "fetch"
       \/ pc \in {"scraped", "save_models"}
       \/ pc = "exit" /\ "interrupted" \notin log

\* C4: when the scraper returns zero records, output file 1 is never
\* written, the fetcher is never invoked and the process exits with code 1.
C4_NoRecordsExitsEarly ==
    ScraperReturnedNothing =>
        /\ file1 = NotWritten
        /\ op = "scrape"
        /\ started <= 1
        /\ pc \in {"scraped", "exit"}
        /\ pc = "exit" => exit_code = 1

\* Every row was rejected by the normalizer, nothing else failed, and the run exited.
C4_Witness ==
    /\ pc = "exit"
    /\ exit_code = 1
    /\ models = <<>>
    /\ started = 1
    /\ log = {"no_models"}

\* C5: every failed write, of the record file or of the API payload file,
\* is logged and ends the process with exit code 1; exit code 0 means
\* normal completion or a user interrupt.
C5_WriteFailureExitsOne ==
    (pc = "exit" /\ write_failed # {}) =>
        /\ exit_code = 1
        /\ "file1" \in write_failed => "save_failed" \in log
        /\ "file2" \in write_failed => "api_save_failed" \in log

\* C6: a session that an operation started is stopped by the time the
\* operation returns: none is open when main goes on or when the next
\* operation starts, and at most one is open at any time.
C6_SessionsReleased ==
    /\ Cardinality(sessions) <= 1
    /\ sessions \subseteq {started}
    /\ playwright # NoSession => playwright \in sessions
    /\ pc \in {"connect", "scraped", "save_models", "fetched"} => sessions = {}
    /\ (pc = "exit" /\ "interrupted" \notin log) => sessions = {}

\* Both operations started a session, the scraper through to success and
\* the fetcher up to a failed connection, and none is open.
C6_Witness ==
    /\ pc = "fetched"
    /\ started = 2
    /\ file1 # NotWritten
    /\ "cannot_connect" \in log
    /\ sessions = {}

====
